---- MODULE Spec2Model ----
(***************************************************************************)
(* Model of app.py, the acid-base titration simulator.                     *)
(*                                                                         *)
(* The script is a Streamlit page: every interaction with a widget runs    *)
(* the whole script again, top to bottom, on the widgets' current values.  *)
(* The state is the widgets' values and the series the last run produced.  *)
(*                                                                         *)
(* Numbers.  Python floats and numpy float64 are IEEE-754 binary64 with    *)
(* round-to-nearest-even.  Several branches of the script compare floats   *)
(* for exact equality, so the arithmetic is modelled bit for bit: a float  *)
(* is a sign, a 53-bit significand and a binary exponent, and + - * / and  *)
(* sqrt round as the hardware does.  TLC's integers are 32 bits wide, so a *)
(* significand is a little-endian sequence of 15-bit limbs.  Subnormals,   *)
(* overflow, infinities (other than log10(0)) and NaN operands are out of  *)
(* reach of the script on the modelled inputs and are not modelled.        *)
(*                                                                         *)
(* np.log10 is a library function, accurate to about an ulp and not        *)
(* specified bit for bit.  It is modelled to within a millionth            *)
(* (Log10Micro), and a pH is an integer number of millionths.              *)
(***************************************************************************)
EXTENDS Integers, Sequences, FiniteSets, TLC

(***************************************************************************)
(* Natural numbers of any size: little-endian sequences of limbs, no       *)
(* leading zero limb, zero the empty sequence.                             *)
(***************************************************************************)
Base == 2^15

Max(a, b) == IF a >= b THEN a ELSE b
Min(a, b) == IF a <= b THEN a ELSE b

\* a without its leading zero limbs
BTrim(a) == SubSeq(a, 1, Max(0, CHOOSE i \in 0..Len(a) :
                                  /\ i > 0 => a[i] # 0
                                  /\ \A j \in i + 1..Len(a) : a[j] = 0))

Limb(a, i) == IF i >= 1 /\ i <= Len(a) THEN a[i] ELSE 0

RECURSIVE BFromInt(_)
BFromInt(n) == IF n = 0 THEN <<>> ELSE <<n % Base>> \o BFromInt(n \div Base)

RECURSIVE BToInt(_)
BToInt(a) == IF a = <<>> THEN 0 ELSE a[1] + Base * BToInt(Tail(a))

RECURSIVE BAddC(_, _, _)
BAddC(a, b, c) ==
  IF a = <<>> /\ b = <<>> THEN (IF c = 0 THEN <<>> ELSE <<c>>)
  ELSE LET s == Limb(a, 1) + Limb(b, 1) + c
       IN <<s % Base>> \o BAddC(IF a = <<>> THEN a ELSE Tail(a),
                                IF b = <<>> THEN b ELSE Tail(b), s \div Base)

BAdd(a, b) == BAddC(a, b, 0)

\* a - b for a >= b
RECURSIVE BSubC(_, _, _)
BSubC(a, b, c) ==
  IF a = <<>> THEN <<>>
  ELSE LET d == a[1] - Limb(b, 1) - c
       IN <<d % Base>> \o BSubC(Tail(a), IF b = <<>> THEN b ELSE Tail(b),
                                IF d < 0 THEN 1 ELSE 0)

BSub(a, b) == BTrim(BSubC(a, b, 0))

\* -1, 0, 1 as a < b, a = b, a > b
RECURSIVE BCmpFrom(_, _, _)
BCmpFrom(a, b, i) ==
  IF i = 0 THEN 0
  ELSE IF a[i] < b[i] THEN -1
  ELSE IF a[i] > b[i] THEN 1
  ELSE BCmpFrom(a, b, i - 1)

BCmp(a, b) ==
  IF Len(a) < Len(b) THEN -1
  ELSE IF Len(a) > Len(b) THEN 1
  ELSE BCmpFrom(a, b, Len(a))

\* a * k for 0 <= k < Base
RECURSIVE BMulSmallC(_, _, _)
BMulSmallC(a, k, c) ==
  IF a = <<>> THEN (IF c = 0 THEN <<>> ELSE <<c>>)
  ELSE LET p == a[1] * k + c
       IN <<p % Base>> \o BMulSmallC(Tail(a), k, p \div Base)

BMulSmall(a, k) == IF k = 0 THEN <<>> ELSE BMulSmallC(a, k, 0)

BShlLimbs(a, n) == IF a = <<>> THEN a ELSE [i \in 1..n |-> 0] \o a

\* a * b: the sum of a's products with limbs lo..hi of b, each in its place,
\* added in halves
RECURSIVE BMulRange(_, _, _, _)
BMulRange(a, b, lo, hi) ==
  IF lo = hi THEN BShlLimbs(BMulSmall(a, b[lo]), lo - 1)
  ELSE BAdd(BMulRange(a, b, lo, (lo + hi) \div 2),
            BMulRange(a, b, (lo + hi) \div 2 + 1, hi))

BMul(a, b) ==
  IF b = <<>> \/ a = <<>> THEN <<>> ELSE BMulRange(a, b, 1, Len(b))

\* a * 2^n: limb j takes the low bits of limb j - n \div 15 of a and the
\* high bits of the limb below it
BShl(a, n) ==
  BTrim([j \in 1..Len(a) + (n \div 15) + 1 |->
           (Limb(a, j - (n \div 15)) % 2^(15 - (n % 15))) * 2^(n % 15)
           + Limb(a, j - (n \div 15) - 1) \div 2^(15 - (n % 15))])

\* quotient and remainder of a by k, 0 < k < Base, from the top limb down
RECURSIVE BDivSmallR(_, _, _)
BDivSmallR(a, k, i) ==
  IF i > Len(a) THEN [q |-> <<>>, r |-> 0]
  ELSE LET hi == BDivSmallR(a, k, i + 1)
           cur == hi.r * Base + a[i]
       IN [q |-> <<cur \div k>> \o hi.q, r |-> cur % k]

BDivSmall(a, k) ==
  LET d == BDivSmallR(a, k, 1) IN [q |-> BTrim(d.q), r |-> d.r]

\* floor(a / 2^n): limb i takes the high bits of limb i + n \div 15 of a and
\* the low bits of the limb above it
BShr(a, n) ==
  BTrim([i \in 1..Max(0, Len(a) - (n \div 15)) |->
           a[i + (n \div 15)] \div 2^(n % 15)
           + (Limb(a, i + (n \div 15) + 1) % 2^(n % 15)) * 2^(15 - (n % 15))])

RECURSIVE BitLenInt(_)
BitLenInt(x) == IF x = 0 THEN 0 ELSE 1 + BitLenInt(x \div 2)

BBitLen(a) ==
  IF a = <<>> THEN 0 ELSE 15 * (Len(a) - 1) + BitLenInt(a[Len(a)])

BIsOdd(a) == a # <<>> /\ a[1] % 2 = 1

\* The largest q with q * b <= r, trying down from the estimate qhat >= q.
RECURSIVE BQFix(_, _, _)
BQFix(r, b, qhat) ==
  IF BCmp(BMulSmall(b, qhat), r) > 0 THEN BQFix(r, b, qhat - 1) ELSE qhat

\* Long division of a by b, b's top limb >= Base/2 (so that the estimate from
\* the top limbs is at most 2 too large), limb by limb of a from the top: a
\* state is i, the limbs of a to come, q, the quotient's limbs so far, and r,
\* the remainder so far.  A step brings limb i down to the remainder (cur) and
\* finds the quotient's limb qd; the steps down to i limbs to come are made
\* in two halves.
BDivLimb(b, i, q, cur, qd) ==
  [i |-> i - 1, q |-> <<qd>> \o q, r |-> BSub(cur, BMulSmall(b, qd))]

BDivCur(b, i, q, cur) ==
  BDivLimb(b, i, q, cur,
           BQFix(cur, b, Min(Base - 1,
                             (Limb(cur, Len(b) + 1) * Base + Limb(cur, Len(b))) \div b[Len(b)])))

BDivStep(a, b, st) == BDivCur(b, st.i, st.q, BTrim(<<a[st.i]>> \o st.r))

RECURSIVE BDivSteps(_, _, _, _)
BDivSteps(a, b, st, i) ==
  IF st.i = i THEN st
  ELSE IF st.i = i + 1 THEN BDivStep(a, b, st)
  ELSE BDivSteps(a, b, BDivSteps(a, b, st, (st.i + i + 1) \div 2), i)

BDivR(a, b) == BDivSteps(a, b, [i |-> Len(a), q |-> <<>>, r |-> <<>>], 0)

BDivDone(d) == [q |-> BTrim(d.q), exact |-> d.r = <<>>]

\* a and b both shifted up until b's top limb is >= Base/2
BDivShifted(as, bs) ==
  IF Len(as) < Len(bs) THEN [q |-> <<>>, exact |-> as = <<>>]
  ELSE BDivDone(BDivR(as, bs))

\* the quotient of a by b # 0, and whether the division is exact
BDivMod(a, b) ==
  BDivShifted(BShl(a, 15 - BitLenInt(b[Len(b)])), BShl(b, 15 - BitLenInt(b[Len(b)])))

\* floor(sqrt(a)) for a > 0, by Newton's iteration downwards from x, an
\* estimate that is not below it: y is the next estimate, and the iteration
\* stops when the estimate no longer decreases.
RECURSIVE BSqrtR(_, _)

BSqrtNext(a, x, y) == IF BCmp(y, x) >= 0 THEN x ELSE BSqrtR(a, y)

BSqrtR(a, x) == BSqrtNext(a, x, BShr(BAdd(x, BDivMod(a, x).q), 1))

BSqrt(a) == BSqrtR(a, BShl(<<1>>, (BBitLen(a) + 1) \div 2))

(***************************************************************************)
(* binary64: [s |-> 1 or -1, m |-> the significand, e |-> the exponent],   *)
(* the value s * m * 2^e with 2^52 <= m < 2^53; zero has m = <<>>.         *)
(***************************************************************************)
FZero == [s |-> 1, m |-> <<>>, e |-> 0]

\* The float nearest to s * (n + f) * 2^e, ties to even, where 0 <= f < 1 and
\* sticky says that f > 0 (sticky only with n of more than 54 bits).
\* In steps: FRoundLen on len, the number of bits of n; FRoundCut on g, the
\* top 54 bits of n (the 53 to keep and the first to drop), and low, the
\* number of bits below them: up when the first bit dropped is set and the
\* rest is not zero or the bits kept are odd; FRoundCarry on q2, the bits kept
\* and rounded up, which may have carried into a 54th bit.
FRoundCarry(s, e, q2) ==
  IF BBitLen(q2) > 53 THEN [s |-> s, m |-> BShr(q2, 1), e |-> e + 1]
  ELSE [s |-> s, m |-> q2, e |-> e]

FRoundCut(s, n, e, sticky, low, g) ==
  IF BIsOdd(g) /\ (sticky \/ BIsOdd(BShr(g, 1)) \/ BShl(g, low) # n)
    THEN FRoundCarry(s, e, BShr(BAdd(g, <<1>>), 1))
  ELSE [s |-> s, m |-> BShr(g, 1), e |-> e]

FRoundLen(s, n, e, sticky, len) ==
  IF len <= 53 THEN [s |-> s, m |-> BShl(n, 53 - len), e |-> e - (53 - len)]
  ELSE FRoundCut(s, n, e + (len - 53), sticky, len - 54, BShr(n, len - 54))

FRound(s, n, e, sticky) ==
  IF n = <<>> THEN FZero ELSE FRoundLen(s, n, e, sticky, BBitLen(n))

FFromInt(n) == FRound(IF n < 0 THEN -1 ELSE 1, BFromInt(IF n < 0 THEN -n ELSE n), 0, FALSE)

FNeg(a) == IF a.m = <<>> THEN a ELSE [a EXCEPT !.s = -a.s]

FAbs(a) == [a EXCEPT !.s = 1]

FMul(a, b) ==
  IF a.m = <<>> \/ b.m = <<>> THEN FZero
  ELSE FRound(a.s * b.s, BMul(a.m, b.m), a.e + b.e, FALSE)

\* a / b for b # 0: 55 or 56 bits of quotient and whether anything is left
\* over; the quotient of the magnitudes, with the sign of a and b
FDivQ(d, e) == FRound(1, d.q, e, ~d.exact)

FDivAbs(a, b) == FDivQ(BDivMod(BShl(a.m, 55), b.m), a.e - b.e - 55)

FDiv(a, b) ==
  IF a.m = <<>> THEN FZero
  ELSE IF a.s = b.s THEN FDivAbs(a, b)
  ELSE FNeg(FDivAbs(a, b))

\* sa * x * 2^e + sb * y * 2^e, c the sign of x - y
FAddAligned(sa, x, sb, y, e, c) ==
  IF sa # sb /\ c = 0 THEN FZero
  ELSE FRound(IF sa = sb \/ c > 0 THEN sa ELSE sb,
              IF sa = sb THEN BAdd(x, y) ELSE IF c > 0 THEN BSub(x, y) ELSE BSub(y, x),
              e, FALSE)

FAddShifted(sa, x, sb, y, e) == FAddAligned(sa, x, sb, y, e, BCmp(x, y))

\* the significands brought to the smaller exponent e
FAddAt(a, b, e) == FAddShifted(a.s, BShl(a.m, a.e - e), b.s, BShl(b.m, b.e - e), e)

FAdd(a, b) ==
  IF a.m = <<>> THEN b
  ELSE IF b.m = <<>> THEN a
  ELSE FAddAt(a, b, Min(a.e, b.e))

FSub(a, b) == FAdd(a, FNeg(b))

FSign(a) == IF a.m = <<>> THEN 0 ELSE a.s

\* -1, 0, 1 as a < b, a = b, a > b
FCmp(a, b) ==
  IF FSign(a) # FSign(b) THEN (IF FSign(a) < FSign(b) THEN -1 ELSE 1)
  ELSE IF FSign(a) = 0 THEN 0
  ELSE FSign(a) * (IF a.e < b.e THEN -1 ELSE IF a.e > b.e THEN 1 ELSE BCmp(a.m, b.m))

FLt(a, b) == FCmp(a, b) < 0
FGt(a, b) == FCmp(a, b) > 0
FEq(a, b) == FCmp(a, b) = 0

\* sqrt(a) for a > 0: the integer square root of the significand moved up to
\* 109 or 110 bits, and whether it is exact
FSqrtOf(n, r, e) == FRound(1, r, e, BMul(r, r) # n)

FSqrtN(n, e) == FSqrtOf(n, BSqrt(n), e)

FSqrt(a) ==
  IF a.m = <<>> THEN FZero
  ELSE FSqrtN(BShl(a.m, IF a.e % 2 = 1 THEN 57 ELSE 56),
         ((IF a.e % 2 = 1 THEN a.e - 1 ELSE a.e) - 56) \div 2)

\* ceil(a) as an integer, for a >= 0
FCeilQ(a, q) == BToInt(q) + (IF BShl(q, -a.e) = a.m THEN 0 ELSE 1)

FCeil(a) ==
  IF a.m = <<>> THEN 0
  ELSE IF a.e >= 0 THEN BToInt(BShl(a.m, a.e))
  ELSE FCeilQ(a, BShr(a.m, -a.e))

\* The float a decimal literal n/d denotes (n, d integers): the correctly
\* rounded quotient.
FDec(n, d) == FDiv(FFromInt(n), FFromInt(d))

(***************************************************************************)
(* np.log10 and the pH values.  A pH is an integer number of millionths;   *)
(* NegInf stands for -inf, which np.log10(0.0) returns (with a warning),   *)
(* and NaN for nan, which np.log10 returns on a negative argument.         *)
(* NegInf is below every pH, as -inf is below every float.                 *)
(***************************************************************************)
NegInf == -(2^30)
PosInf == 2^30
NaN == 2^30 + 1

\* The first k binary digits of log2(y / 2^30) after the point, for a
\* fixed-point y with 2^30 <= y < 2^31: squaring y doubles its logarithm, and
\* the digit is 1 when the square reaches 2.  A step takes y, the digits so
\* far (acc) and the number of digits to come (k) to the next; the steps down
\* to k digits to come are made in two halves.
Log2Sq(sq, acc, k) ==
  IF BBitLen(sq) > 31 THEN [y |-> BShr(sq, 1), acc |-> 2 * acc + 1, k |-> k - 1]
  ELSE [y |-> sq, acc |-> 2 * acc, k |-> k - 1]

Log2Step(st) == Log2Sq(BShr(BMul(st.y, st.y), 30), st.acc, st.k)

RECURSIVE Log2Steps(_, _)
Log2Steps(st, k) ==
  IF st.k = k THEN st
  ELSE IF st.k = k + 1 THEN Log2Step(st)
  ELSE Log2Steps(Log2Steps(st, (st.k + k + 1) \div 2), k)

Log2Digits(y, k) == Log2Steps([y |-> y, acc |-> 0, k |-> k], 0).acc

\* t >= 0 in units of 2^-24, times 10^6 * log10(2), to the nearest integer
Log10Scaled(t) ==
  BToInt(BDivSmall(BShr(BAdd(BMul(BFromInt(t), BFromInt(301029996)),
                             BMulSmall(BShl(<<1>>, 23), 1000)), 24), 1000).q)

Log10Signed(t) == IF t >= 0 THEN Log10Scaled(t) ELSE -Log10Scaled(-t)

Log10Pos(a) == Log10Signed((a.e + 52) * 2^24 + Log2Digits(BShr(a.m, 22), 24))

Log10Micro(a) ==
  IF FSign(a) = 0 THEN NegInf
  ELSE IF FSign(a) < 0 THEN NaN
  ELSE Log10Pos(a)

\* c + l for a pH offset c and a logarithm l (both in millionths)
PHPlus(c, l) == IF l = NegInf \/ l = NaN THEN l ELSE c + l

\* -l
PHMinus(l) == IF l = NaN THEN NaN ELSE IF l = NegInf THEN PosInf ELSE -l

(***************************************************************************)
(* The script.  A widget's number is kept as the integer the user sees:    *)
(* concentrations in hundredths of mol/L, the sample volume in mL, the     *)
(* step in tenths of mL; the script gets the float nearest to the decimal. *)
(* The drop slider (the script's drop_index, in mL) is kept as its number  *)
(* of steps from 0.                                                        *)
(* cfg is the record of the widgets' values the script reads.              *)
(***************************************************************************)
SampleTypes == {"Strong Acid (HCl)", "Weak Acid (CH3COOH)"}
TitrantTypes == {"Strong Base (NaOH)", "Weak Base (NH3)"}
Indicators == {"Phenolphthalein", "Methyl Orange", "Bromothymol Blue"}

\* str.startswith on the two labels of each selectbox
StartsWithStrong(label) == label \in {"Strong Acid (HCl)", "Strong Base (NaOH)"}
StartsWithWeak(label) == label \in {"Weak Acid (CH3COOH)", "Weak Base (NH3)"}

indicator_range ==
  [i \in Indicators |->
     IF i = "Phenolphthalein" THEN <<8200000, 10000000>>
     ELSE IF i = "Methyl Orange" THEN <<3100000, 4400000>>
     ELSE <<6000000, 7600000>>]

indicator_color_map ==
  [i \in Indicators |->
     IF i = "Phenolphthalein" THEN [low |-> "white", high |-> "pink"]
     ELSE IF i = "Methyl Orange" THEN [low |-> "red", high |-> "yellow"]
     ELSE [low |-> "yellow", high |-> "blue"]]

pKa_acetic == 4760000
Kb_ammonia == FDec(18, 1000000)

F1000 == FFromInt(1000)
sample_conc_of(cfg) == FDec(cfg.sample_conc, 100)
titrant_conc_of(cfg) == FDec(cfg.titrant_conc, 100)
sample_vol_of(cfg) == FFromInt(cfg.sample_vol)
step_size_of(cfg) == FDec(cfg.step_size, 10)

\* A range that stops at 50
ArangeLenToFifty(step) == FCeil(FDiv(FFromInt(50), step))

\* np.arange(0, 50 + step_size, step_size): ceil((stop - start) / step)
\* elements, element i (from 0) being start + i * step.
ArangeLen(step) == FCeil(FDiv(FAdd(FFromInt(50), step), step))

Arange(step) == [i \in 1..ArangeLen(step) |-> FMul(FFromInt(i - 1), step)]

\* The script's floats: what the widgets return for cfg, as the pH and
\* conductivity loops read them.
Floats(cfg) ==
  [sample_type |-> cfg.sample_type, titrant_type |-> cfg.titrant_type,
   sample_conc |-> sample_conc_of(cfg), sample_vol |-> sample_vol_of(cfg),
   titrant_conc |-> titrant_conc_of(cfg), step_size |-> step_size_of(cfg)]

\* One pass of the pH loop's body gives the pH appended for titrant volume V,
\* the branch taken and the arguments passed to np.log10.  w is Floats(cfg).
\* "pH.append(-np.log10(arg))" and "pH.append(c + np.log10(arg))":
MinusLog(branch, arg) ==
  [ph |-> PHMinus(Log10Micro(arg)), branch |-> branch, logs |-> <<arg>>]

PlusLog(c, branch, arg) ==
  [ph |-> PHPlus(c, Log10Micro(arg)), branch |-> branch, logs |-> <<arg>>]

\* The Strong/Strong branches without the pH = 7 one
StrongStrongExcessNoNeutral(excess, V_total) ==
  IF FSign(excess) > 0
    THEN MinusLog("excess acid", FMul(FDiv(excess, V_total), F1000))
  ELSE PlusLog(14000000, "excess base", FMul(FDiv(FAbs(excess), V_total), F1000))

\* "if excess > 0: ... elif excess < 0: ... else: pH.append(7)"
StrongStrongExcess(excess, V_total) ==
  IF FSign(excess) > 0
    THEN MinusLog("excess acid", FMul(FDiv(excess, V_total), F1000))
  ELSE IF FSign(excess) < 0
    THEN PlusLog(14000000, "excess base", FMul(FDiv(FAbs(excess), V_total), F1000))
  ELSE [ph |-> 7000000, branch |-> "neutral", logs |-> <<>>]

StrongStrongPH(w, V, V_total) ==
  LET moles_H == FDiv(FMul(w.sample_conc, w.sample_vol), F1000)
      moles_OH == FDiv(FMul(w.titrant_conc, V), F1000)
  IN StrongStrongExcess(FSub(moles_H, moles_OH), V_total)

\* The Weak/Strong branches without the equality one
WeakStrongMolesNoEqual(moles_HA, moles_OH, V_total) ==
  IF FLt(moles_OH, moles_HA)
    THEN PlusLog(pKa_acetic, "buffer", FDiv(moles_OH, FSub(moles_HA, moles_OH)))
  ELSE PlusLog(14000000, "excess base",
               FMul(FDiv(FSub(moles_OH, moles_HA), V_total), F1000))

\* "if moles_OH < moles_HA: ... elif moles_OH == moles_HA: ... else: ..."
WeakStrongMoles(moles_HA, moles_OH, V_total) ==
  IF FLt(moles_OH, moles_HA)
    THEN PlusLog(pKa_acetic, "buffer", FDiv(moles_OH, FSub(moles_HA, moles_OH)))
  ELSE IF FEq(moles_OH, moles_HA)
    THEN [ph |-> pKa_acetic, branch |-> "equal", logs |-> <<>>]
  ELSE PlusLog(14000000, "excess base",
               FMul(FDiv(FSub(moles_OH, moles_HA), V_total), F1000))

WeakStrongPH(w, V, V_total) ==
  LET moles_HA == FDiv(FMul(w.sample_conc, w.sample_vol), F1000)
      moles_OH == FDiv(FMul(w.titrant_conc, V), F1000)
  IN WeakStrongMoles(moles_HA, moles_OH, V_total)

\* "if moles_B == 0: ... else: OH_conc = np.sqrt(...) ..."
StrongWeakMoles(w, moles_B, V_total) ==
  IF FSign(moles_B) = 0
    THEN MinusLog("no base", w.sample_conc)
  ELSE PlusLog(14000000, "weak base",
               FSqrt(FMul(Kb_ammonia, FMul(FDiv(moles_B, V_total), F1000))))

StrongWeakPH(w, V, V_total) ==
  StrongWeakMoles(w, FDiv(FMul(w.titrant_conc, V), F1000), V_total)

\* V_total = sample_vol + V, then the branch on the two strengths
PHBranch(w, V, V_total) ==
  IF StartsWithStrong(w.sample_type) /\ StartsWithStrong(w.titrant_type)
    THEN StrongStrongPH(w, V, V_total)
  ELSE IF StartsWithWeak(w.sample_type) /\ StartsWithStrong(w.titrant_type)
    THEN WeakStrongPH(w, V, V_total)
  ELSE IF StartsWithStrong(w.sample_type) /\ StartsWithWeak(w.titrant_type)
    THEN StrongWeakPH(w, V, V_total)
  ELSE [ph |-> 7000000, branch |-> "weak weak", logs |-> <<>>]

PHBody(w, V) == PHBranch(w, V, FAdd(w.sample_vol, V))

\* a < b on pH values: false when either is not a number
PLt(a, b) == a # NaN /\ b # NaN /\ a < b

\* A classifier with inclusive thresholds
ColorOfInclusive(ind, val) ==
  IF val # NaN /\ val <= indicator_range[ind][1] THEN indicator_color_map[ind].low
  ELSE IF val # NaN /\ val >= indicator_range[ind][2] THEN indicator_color_map[ind].high
  ELSE "orange"

\* The colour appended for one pH value
ColorOf(ind, val) ==
  IF PLt(val, indicator_range[ind][1]) THEN indicator_color_map[ind].low
  ELSE IF PLt(indicator_range[ind][2], val) THEN indicator_color_map[ind].high
  ELSE "orange"

\* Conductivity bodies with another slope before the sample volume: 0.3, and
\* the sample concentration
CondBodySteep(w, V) ==
  IF StartsWithStrong(w.sample_type) /\ StartsWithStrong(w.titrant_type)
    THEN IF FLt(V, w.sample_vol)
           THEN FSub(FFromInt(10), FMul(FDec(3, 10), V))
         ELSE IF FEq(V, w.sample_vol) THEN FFromInt(5)
         ELSE FAdd(FFromInt(5), FMul(FDec(15, 100), FSub(V, w.sample_vol)))
  ELSE FAdd(FFromInt(5), FMul(FDec(2, 100), FSub(V, w.sample_vol)))

CondBodyConc(w, V) ==
  IF StartsWithStrong(w.sample_type) /\ StartsWithStrong(w.titrant_type)
    THEN IF FLt(V, w.sample_vol)
           THEN FSub(FFromInt(10), FMul(w.sample_conc, V))
         ELSE IF FEq(V, w.sample_vol) THEN FFromInt(5)
         ELSE FAdd(FFromInt(5), FMul(FDec(15, 100), FSub(V, w.sample_vol)))
  ELSE FAdd(FFromInt(5), FMul(FDec(2, 100), FSub(V, w.sample_vol)))

\* One pass of the conductivity loop's body
CondBody(w, V) ==
  IF StartsWithStrong(w.sample_type) /\ StartsWithStrong(w.titrant_type)
    THEN IF FLt(V, w.sample_vol)
           THEN FSub(FFromInt(10), FMul(FDec(1, 10), V))
         ELSE IF FEq(V, w.sample_vol) THEN FFromInt(5)
         ELSE FAdd(FFromInt(5), FMul(FDec(15, 100), FSub(V, w.sample_vol)))
  ELSE FAdd(FFromInt(5), FMul(FDec(2, 100), FSub(V, w.sample_vol)))

\* A list that is not reset
KeptList(old) == old

\* "x = []": the list a loop appends to starts empty, whatever the name held
EmptyList(old) == <<>>

(***************************************************************************)
(* The widgets' values the model lets the user choose.                     *)
(***************************************************************************)
StepSliderMin == 1
StepSliderMax == 50
SampleConcValues == {7, 10}
TitrantConcValues == {5, 10}
SampleVolValues == {25, 60}
StepValues == {30, 50}
MaxDrop == 2

Configs ==
  [sample_type : SampleTypes, titrant_type : TitrantTypes, sample_conc : SampleConcValues,
   sample_vol : SampleVolValues, titrant_conc : TitrantConcValues, step_size : StepValues]

(***************************************************************************)
(* Exact arithmetic on the reals the doubles stand for (m * 2^e, m of any  *)
(* length), for stating what a comparison of floats says about the reals.  *)
(***************************************************************************)
EMul(a, b) == [s |-> a.s * b.s, m |-> BMul(a.m, b.m), e |-> a.e + b.e]

EScale(n, a) == [s |-> a.s, m |-> BMul(BFromInt(n), a.m), e |-> a.e]

\* the sign of a - b
ECmp(a, b) ==
  LET e == Min(a.e, b.e)
      c == BCmp(BShl(a.m, a.e - e), BShl(b.m, b.e - e))
  IN IF FSign(a) # FSign(b) THEN (IF FSign(a) > FSign(b) THEN 1 ELSE -1)
     ELSE FSign(a) * c

\* |a - b| for a, b >= 0
EAbsDiff(a, b) ==
  LET e == Min(a.e, b.e)
      x == BShl(a.m, a.e - e)
      y == BShl(b.m, b.e - e)
  IN [s |-> 1, m |-> IF BCmp(x, y) >= 0 THEN BSub(x, y) ELSE BSub(y, x), e |-> e]

\* a + b for a, b >= 0
ESum(a, b) ==
  LET e == Min(a.e, b.e)
  IN [s |-> 1, m |-> BTrim(BAdd(BShl(a.m, a.e - e), BShl(b.m, b.e - e))), e |-> e]

\* The sign of sample_conc * sample_vol - n * titrant_conc * V over the reals
MolesCmp(w, V, n) ==
  ECmp(EMul(w.sample_conc, w.sample_vol), EScale(n, EMul(w.titrant_conc, V)))

\* What one run of the script computes per titrant volume: the volume, the
\* pH loop's body and the conductivity loop's body (and, for the record, how
\* the moles compare over the reals: against the base added and twice it).
Element(w, V) ==
  [V |-> V, p |-> PHBody(w, V), cond |-> CondBody(w, V),
   full |-> MolesCmp(w, V, 1), half |-> MolesCmp(w, V, 2)]

ElementsOver(w, Vs) == [i \in 1..Len(Vs) |-> Element(w, Vs[i])]

ElementsOf(w) == ElementsOver(w, Arange(w.step_size))

Elements(cfg) == ElementsOf(Floats(cfg))

\* int(x) for x >= 0
FFloorOf(a, c) == IF FEq(FFromInt(c), a) THEN c ELSE c - 1

FFloor(a) == FFloorOf(a, FCeil(a))

\* plot_index with the drop slider d steps from its minimum
PlotIndex(d, step) == FFloor(FDiv(FMul(FFromInt(d), step), step)) + 1

PlotTable ==
  [x \in (StepSliderMin..StepSliderMax) \X (0..MaxDrop) |-> PlotIndex(x[2], FDec(x[1], 10))] @@ <<>>

\* The runs of the script, tabulated (@@ yields the explicit function)
Script == [cfg \in Configs |-> <<>> \o Elements(cfg)] @@ <<>>

VARIABLES sample_type, titrant_type, sample_conc, sample_vol, titrant_conc,
          indicator, step_size, drop_index, button,
          V_titrant, pH, pH_trace, colors, plot_index, conductivity, csv_rows

widgets == <<sample_type, titrant_type, sample_conc, sample_vol, titrant_conc,
             indicator, step_size, drop_index, button>>
vars == <<widgets, V_titrant, pH, pH_trace, colors, plot_index, conductivity, csv_rows>>

Config ==
  [sample_type |-> sample_type, titrant_type |-> titrant_type, sample_conc |-> sample_conc,
   sample_vol |-> sample_vol, titrant_conc |-> titrant_conc, step_size |-> step_size]

\* The three loops, each over V_titrant (the colours loop over pH)
PHLoop(old, E) == EmptyList(old) \o [i \in 1..Len(E) |-> E[i].p.ph]
TraceLoop(E) ==
  [i \in 1..Len(E) |->
     [branch |-> E[i].p.branch, logs |-> E[i].p.logs, full |-> E[i].full, half |-> E[i].half]]
ColorsLoop(old, ind, phs) == EmptyList(old) \o [i \in 1..Len(phs) |-> ColorOf(ind, phs[i])]

\* A conductivity loop that stops one volume early
ConductivityLoopShort(old, E) == EmptyList(old) \o [i \in 1..Len(E) - 1 |-> E[i].cond]

ConductivityLoop(old, E) == EmptyList(old) \o [i \in 1..Len(E) |-> E[i].cond]

\* pd.DataFrame of the three columns, to_csv: the file's number of data rows.
\* The constructor raises on columns of different lengths and nothing is written.
ExportRows(Vs, phs, conds, rows) ==
  IF Len(phs) = Len(Vs) /\ Len(conds) = Len(Vs) THEN Len(Vs) ELSE rows

\* One run of the script, top to bottom, with the widgets holding cfg, ind,
\* the drop slider at d steps and the export button returning b: what the
\* page holds after the loops have left the series Vs, phs and conds.
Rendered(cfg, ind, d, b, trace, Vs, phs, conds) ==
  /\ sample_type' = cfg.sample_type
  /\ titrant_type' = cfg.titrant_type
  /\ sample_conc' = cfg.sample_conc
  /\ sample_vol' = cfg.sample_vol
  /\ titrant_conc' = cfg.titrant_conc
  /\ step_size' = cfg.step_size
  /\ indicator' = ind
  /\ drop_index' = d
  /\ button' = b
  /\ V_titrant' = Vs
  /\ pH' = phs
  /\ pH_trace' = trace
  /\ colors' = ColorsLoop(colors, ind, phs)
  /\ plot_index' = PlotTable[<<cfg.step_size, d>>]
  /\ conductivity' = conds
  /\ csv_rows' = IF b THEN ExportRows(Vs, phs, conds, csv_rows) ELSE csv_rows

\* E is the run's elements
RunLoops(cfg, ind, d, b, E) ==
  Rendered(cfg, ind, d, b, TraceLoop(E), [i \in 1..Len(E) |-> E[i].V],
           PHLoop(pH, E), ConductivityLoop(conductivity, E))

Rerun(cfg, ind, d, b) == RunLoops(cfg, ind, d, b, Script[cfg])

InitConfig ==
  [sample_type |-> "Strong Acid (HCl)", titrant_type |-> "Strong Base (NaOH)", sample_conc |-> 10,
   sample_vol |-> 25, titrant_conc |-> 10, step_size |-> 50]

\* The page after its first run: the widgets at their defaults (the step
\* slider at its upper end), no file written.
FirstRendered(E, phs) ==
  /\ sample_type = InitConfig.sample_type
  /\ titrant_type = InitConfig.titrant_type
  /\ sample_conc = InitConfig.sample_conc
  /\ sample_vol = InitConfig.sample_vol
  /\ titrant_conc = InitConfig.titrant_conc
  /\ step_size = InitConfig.step_size
  /\ indicator = "Phenolphthalein"
  /\ drop_index = 0
  /\ button = FALSE
  /\ V_titrant = [i \in 1..Len(E) |-> E[i].V]
  /\ pH = phs
  /\ pH_trace = TraceLoop(E)
  /\ colors = ColorsLoop(<<>>, "Phenolphthalein", phs)
  /\ plot_index = PlotTable[<<InitConfig.step_size, 0>>]
  /\ conductivity = ConductivityLoop(<<>>, E)
  /\ csv_rows = 0

FirstRun(E) == FirstRendered(E, PHLoop(<<>>, E))

Init == FirstRun(Script[InitConfig])

SelectSampleType ==
  \E v \in SampleTypes \ {sample_type} :
    Rerun([Config EXCEPT !.sample_type = v], indicator, drop_index, FALSE)

SelectTitrantType ==
  \E v \in TitrantTypes \ {titrant_type} :
    Rerun([Config EXCEPT !.titrant_type = v], indicator, drop_index, FALSE)

InputSampleConc ==
  \E v \in SampleConcValues \ {sample_conc} :
    Rerun([Config EXCEPT !.sample_conc = v], indicator, drop_index, FALSE)

InputSampleVol ==
  \E v \in SampleVolValues \ {sample_vol} :
    Rerun([Config EXCEPT !.sample_vol = v], indicator, drop_index, FALSE)

InputTitrantConc ==
  \E v \in TitrantConcValues \ {titrant_conc} :
    Rerun([Config EXCEPT !.titrant_conc = v], indicator, drop_index, FALSE)

SelectIndicator ==
  \E v \in Indicators \ {indicator} :
    Rerun(Config, v, drop_index, FALSE)

\* The drop slider is built from step_size and V_titrant[-1]: a new step
\* makes it a new slider, back at its minimum.
SlideStepSize ==
  \E v \in StepValues \ {step_size} :
    Rerun([Config EXCEPT !.step_size = v], indicator, 0, FALSE)

SlideDrop ==
  \E d \in (0..Min(MaxDrop, Len(V_titrant) - 1)) \ {drop_index} :
    Rerun(Config, indicator, d, FALSE)

ClickExport == Rerun(Config, indicator, drop_index, TRUE)

Next ==
  \/ SelectSampleType
  \/ SelectTitrantType
  \/ InputSampleConc
  \/ InputSampleVol
  \/ InputTitrantConc
  \/ SelectIndicator
  \/ SlideStepSize
  \/ SlideDrop
  \/ ClickExport

Spec == Init /\ [][Next]_vars
(***************************************************************************)
(* The volume series alone, for every position of the step slider.         *)
(***************************************************************************)
InitVolume ==
  /\ sample_type = InitConfig.sample_type
  /\ titrant_type = InitConfig.titrant_type
  /\ sample_conc = InitConfig.sample_conc
  /\ sample_vol = InitConfig.sample_vol
  /\ titrant_conc = InitConfig.titrant_conc
  /\ step_size \in StepSliderMin..StepSliderMax
  /\ indicator = "Phenolphthalein"
  /\ drop_index = 0
  /\ button = FALSE
  /\ V_titrant = <<>>
  /\ pH = <<>>
  /\ pH_trace = <<>>
  /\ colors = <<>>
  /\ plot_index = 0
  /\ conductivity = <<>>
  /\ csv_rows = 0

RunArange ==
  /\ V_titrant = <<>>
  /\ V_titrant' = Arange(step_size_of(Config))
  /\ UNCHANGED <<widgets, pH, pH_trace, colors, plot_index, conductivity, csv_rows>>

\* The drop slider over the series, 0 to V_titrant[-1] in steps of step_size,
\* and the number of points plotted
PlaceDrop ==
  /\ V_titrant # <<>>
  /\ \E d \in (0..Min(MaxDrop, Len(V_titrant) - 1)) \ {drop_index} :
       /\ drop_index' = d
       /\ plot_index' = PlotTable[<<step_size, d>>]
  /\ UNCHANGED <<sample_type, titrant_type, sample_conc, sample_vol, titrant_conc, indicator,
                 step_size, button, V_titrant, pH, pH_trace, colors, conductivity, csv_rows>>

NextVolume == RunArange \/ PlaceDrop

SpecVolume == InitVolume /\ [][NextVolume]_vars

(***************************************************************************)
(* The colours loop alone, over pH values on both sides of and exactly at  *)
(* every threshold.                                                        *)
(***************************************************************************)
ProbePH == {k * 100000 : k \in 0..140} \cup {NegInf, PosInf, NaN}

InitClassifier ==
  /\ sample_type = InitConfig.sample_type
  /\ titrant_type = InitConfig.titrant_type
  /\ sample_conc = InitConfig.sample_conc
  /\ sample_vol = InitConfig.sample_vol
  /\ titrant_conc = InitConfig.titrant_conc
  /\ step_size = InitConfig.step_size
  /\ indicator \in Indicators
  /\ drop_index = 0
  /\ button = FALSE
  /\ V_titrant = <<>>
  /\ \E v \in ProbePH : pH = <<v>>
  /\ pH_trace = <<>>
  /\ colors = <<>>
  /\ plot_index = 0
  /\ conductivity = <<>>
  /\ csv_rows = 0

Classify ==
  /\ colors = <<>>
  /\ colors' = ColorsLoop(colors, indicator, pH)
  /\ UNCHANGED <<widgets, V_titrant, pH, pH_trace, plot_index, conductivity, csv_rows>>

NextClassifier == Classify

SpecClassifier == InitClassifier /\ [][NextClassifier]_vars

(***************************************************************************)
(* Properties.  Products of a concentration and a volume are compared over *)
(* the reals the doubles in the script stand for (pH_trace's full, half).  *)
(***************************************************************************)
StrongStrong == StartsWithStrong(sample_type) /\ StartsWithStrong(titrant_type)
WeakStrong == StartsWithWeak(sample_type) /\ StartsWithStrong(titrant_type)
Finite(v) == v \notin {NegInf, PosInf, NaN}
Elems == 1..Len(V_titrant)

\* C1: every argument passed to np.log10 in the pH loop is strictly positive
\* and every pH value is a finite number, for every configuration and volume.
C1_LogArgsPositive ==
  \A i \in 1..Len(pH) :
    /\ \A k \in 1..Len(pH_trace[i].logs) : FSign(pH_trace[i].logs[k]) > 0
    /\ Finite(pH[i])

\* C2: for a strong acid and a strong base the pH series never decreases from
\* one volume of the series to the next.
C2_NonDecreasing ==
  StrongStrong => \A i \in 1..Len(pH) - 1 : pH[i] <= pH[i + 1]

C4_SameLength ==
  /\ Len(pH) = Len(V_titrant)
  /\ Len(conductivity) = Len(V_titrant)
  /\ Len(colors) = Len(V_titrant)
  /\ Len(Script[Config]) = Len(V_titrant)
  /\ \A i \in Elems :
       /\ Script[Config][i].V = V_titrant[i]
       /\ pH[i] = Script[Config][i].p.ph
       /\ conductivity[i] = Script[Config][i].cond
       /\ colors[i] = ColorOf(indicator, pH[i])
  /\ button => csv_rows = Len(V_titrant)

C4_Witness ==
  /\ button
  /\ csv_rows = Len(V_titrant)
  /\ StartsWithWeak(sample_type) /\ StartsWithWeak(titrant_type)
  /\ indicator = "Methyl Orange"
  /\ step_size = 30
  /\ Len(colors) = 18

\* C5: the volume series is 0, step, 2 * step, ... (element i the double
\* nearest to i * step), strictly increasing, with exactly one element >= 50,
\* the last, every element < 50 + step, and ceil(50 / step) + 1 or
\* ceil(50 / step) + 2 elements.
C5_VolumeSeries ==
  LET step == step_size_of(Config)
      n == Len(V_titrant)
      fifty == FFromInt(50)
  IN V_titrant # <<>> =>
       /\ V_titrant[1] = FZero
       /\ \A i \in 1..n :
            ECmp(EAbsDiff(V_titrant[i], EScale(i - 1, step)),
                 [s |-> 1, m |-> <<1>>, e |-> V_titrant[i].e - 1]) <= 0
       /\ \A i \in 1..n - 1 : FLt(V_titrant[i], V_titrant[i + 1])
       /\ Cardinality({i \in 1..n : ECmp(V_titrant[i], fifty) >= 0}) = 1
       /\ ECmp(V_titrant[n], fifty) >= 0
       /\ \A i \in 1..n : ECmp(V_titrant[i], ESum(fifty, step)) < 0
       /\ \E c \in {n - 1, n - 2} :
            /\ ECmp(EScale(c, step), fifty) >= 0
            /\ ECmp(EScale(c - 1, step), fifty) < 0

C5_Witness ==
  /\ step_size = 7
  /\ Len(V_titrant) = 73
  /\ FLt(FFromInt(50), V_titrant[73])

\* C6: a pH value below the indicator's low threshold gets its low colour, one
\* above the high threshold its high colour, any other (the thresholds
\* themselves included) the transition label, which is no indicator's low or
\* high colour.
C6_Classification ==
  /\ colors # <<>> =>
       LET v == pH[1]
           low == indicator_range[indicator][1]
           high == indicator_range[indicator][2]
       IN /\ Len(colors) = 1
          /\ PLt(v, low) => colors[1] = indicator_color_map[indicator].low
          /\ PLt(high, v) => colors[1] = indicator_color_map[indicator].high
          /\ ~PLt(v, low) /\ ~PLt(high, v) => colors[1] = "orange"
  /\ \A ind \in Indicators :
       "orange" \notin {indicator_color_map[ind].low, indicator_color_map[ind].high}

C6_Witness ==
  /\ indicator = "Phenolphthalein"
  /\ pH = <<8200000>>
  /\ colors = <<"orange">>

\* C7: for a strong acid and a strong base the conductivity is 10 at V = 0
\* and 5 at V = sample_vol, no element of the series is below 5, and the
\* series decreases while V < sample_vol and increases while V > sample_vol.
C7_Curve ==
  /\ FEq(conductivity[1], FFromInt(10))
  /\ \A i \in Elems :
       /\ FEq(V_titrant[i], FFromInt(sample_vol)) => FEq(conductivity[i], FFromInt(5))
       /\ ~FLt(conductivity[i], FFromInt(5))
  /\ \A i \in 1..Len(V_titrant) - 1 :
       /\ FLt(V_titrant[i + 1], FFromInt(sample_vol)) => FLt(conductivity[i + 1], conductivity[i])
       /\ FLt(FFromInt(sample_vol), V_titrant[i]) => FLt(conductivity[i], conductivity[i + 1])

C7_MinimumAtFive == StrongStrong => C7_Curve

\* C7 as amended: the same for sample volumes of at most 50 mL, the volumes
\* the series reaches.
C7_MinimumAtFiveUpTo50 == StrongStrong /\ sample_vol <= 50 => C7_Curve

C7_Witness ==
  /\ StrongStrong
  /\ sample_vol = 25
  /\ step_size = 50
  /\ FEq(V_titrant[6], FFromInt(25))
  /\ FEq(conductivity[6], FFromInt(5))
  /\ FEq(conductivity[1], FFromInt(10))

C9_FreshSeries ==
  LET E == Script[Config]
      fresh == [i \in 1..Len(E) |-> E[i].p.ph]
  IN /\ pH = fresh
     /\ colors = [i \in 1..Len(E) |-> ColorOf(indicator, fresh[i])]
     /\ conductivity = [i \in 1..Len(E) |-> E[i].cond]

\* Back at the first run's configuration after an export at another step
C9_Witness ==
  /\ Config = InitConfig
  /\ indicator = "Phenolphthalein"
  /\ csv_rows = 18
  /\ drop_index = 2
  /\ pH = [i \in 1..Len(Script[InitConfig]) |-> Script[InitConfig][i].p.ph]

\* C10: an interaction that leaves the two strengths, the sample volume and
\* the step as they are (a change of a concentration or of the indicator)
\* leaves the conductivity series as it is.
C10_ConductivityIndependent ==
  [][(/\ sample_type' = sample_type
      /\ titrant_type' = titrant_type
      /\ sample_vol' = sample_vol
      /\ step_size' = step_size) => conductivity' = conductivity]_vars

C10_Witness ==
  /\ StrongStrong
  /\ sample_vol = InitConfig.sample_vol
  /\ step_size = InitConfig.step_size
  /\ sample_conc # InitConfig.sample_conc
  /\ titrant_conc # InitConfig.titrant_conc
  /\ indicator = "Bromothymol Blue"
  /\ pH # [i \in 1..Len(Script[InitConfig]) |-> Script[InitConfig][i].p.ph]
  /\ conductivity = [i \in 1..Len(Script[InitConfig]) |-> Script[InitConfig][i].cond]

====
